---------------------------- MODULE Spec2Model ----------------------------
(***************************************************************************)
(* A model of the oscilloscope capture decoder of src/src/main.rs: the     *)
(* binread layout of File / Header / Measurements driven over a byte       *)
(* buffer by a forward cursor, the scale tables and enum codecs, the       *)
(* point generation and the two output branches of main.                   *)
(*                                                                         *)
(* Representations.                                                        *)
(*  - A byte buffer is [exists, len, fill, patch]: every byte is fill but  *)
(*    the bytes at the offsets in DOMAIN patch.  ByteAt reads it.          *)
(*  - A Vec<u16> is [count, fill, patch] in the same way (index -> word),  *)
(*    kept normal: no patch entry equals fill.                             *)
(*  - A Vec<Point> is the unevaluated map of generate_points over such a   *)
(*    vector; PointAt evaluates the closure at one index.                  *)
(*  - An f32 is the exact decimal [m, e] = m * 10^e; rounding to 24 bits   *)
(*    is not modelled.  u16 -> f32 is exact, so is the f32 difference of   *)
(*    two u16 values.                                                      *)
(*  - A u32 is two 16-bit limbs [hi, lo].                                  *)
(***************************************************************************)
EXTENDS Integers, Sequences, FiniteSets, TLC

VARIABLES
    output,     \* args.output: "raw" or "parsed"
    buf,        \* the bytes of args.file
    pc,         \* where main is
    pos,        \* the reader's cursor
    field,      \* the field being decoded: indexes into the three layouts
    header,     \* the Header fields decoded so far: name -> u16
    samples,    \* the sample runs decoded so far: name -> Vec<u16>
    at,         \* for every decoded field, the offset its bytes came from
    moves,      \* the cursor positions of the last field: before, after seek_before, after pad_before, after the read
    ip,         \* the next statement of the parsed branch
    data,       \* the locals and Data fields built so far: name -> value
    stdout,     \* the documents written to standard output
    prev,       \* the outcome of the previous run of the tool, if any
    call,       \* a direct call of one of the functions: [fn, ...arguments]
    ret         \* its return value

vars == <<output, buf, pc, pos, field, header, samples, at, moves, ip, data,
          stdout, prev, call, ret>>

mainVars == <<output, buf, pc, pos, field, header, samples, at, moves, ip,
              data, stdout, prev>>

-----------------------------------------------------------------------------
(* Bounds of the model *)

\* files are up to this many bytes longer than the layout needs
MaxExtra == 1
\* scale and enum codes 0..MaxCode are all tried, plus U16Edge
MaxCode == 34
\* the longest sample vector given to generate_points directly
MaxLen == 2

-----------------------------------------------------------------------------
(* Program constants *)

DIVISION_POINTS == 50
VOLTAGE_MEASUREMENT_DIVISOR == 1024

U16 == 65536
U16Edge == {255, 256, 258, 32767, 32768, 65535}

Empty == <<>>

-----------------------------------------------------------------------------
(* f32 values as exact decimals *)

Dec(m, e) == [m |-> m, e |-> e]

\* (k as f32) * d
DecMulInt(k, d) == [m |-> k * d.m, e |-> d.e]

\* d / k for a k that divides 100
DecDiv(d, k) == [m |-> d.m * (100 \div k), e |-> d.e - 2]

-----------------------------------------------------------------------------
(* Scale tables *)

Scale(value, scale, unit) == [value |-> value, scale |-> scale, unit |-> unit]

TIME_SCALES == <<
    Scale(Dec(50, 0), 0, "Second"),
    Scale(Dec(20, 0), 0, "Second"),
    Scale(Dec(10, 0), 0, "Second"),
    Scale(Dec(5, 0), 0, "Second"),
    Scale(Dec(2, 0), 0, "Second"),
    Scale(Dec(1, 0), 0, "Second"),
    Scale(Dec(500, 0), -3, "Second"),
    Scale(Dec(200, 0), -3, "Second"),
    Scale(Dec(100, 0), -3, "Second"),
    Scale(Dec(50, 0), -3, "Second"),
    Scale(Dec(20, 0), -3, "Second"),
    Scale(Dec(10, 0), -3, "Second"),
    Scale(Dec(5, 0), -3, "Second"),
    Scale(Dec(2, 0), -3, "Second"),
    Scale(Dec(1, 0), -3, "Second"),
    Scale(Dec(500, 0), -6, "Second"),
    Scale(Dec(200, 0), -6, "Second"),
    Scale(Dec(100, 0), -6, "Second"),
    Scale(Dec(50, 0), -6, "Second"),
    Scale(Dec(20, 0), -6, "Second"),
    Scale(Dec(10, 0), -6, "Second"),
    Scale(Dec(5, 0), -6, "Second"),
    Scale(Dec(2, 0), -6, "Second"),
    Scale(Dec(1, 0), -6, "Second"),
    Scale(Dec(500, 0), -9, "Second"),
    Scale(Dec(200, 0), -9, "Second"),
    Scale(Dec(100, 0), -9, "Second"),
    Scale(Dec(50, 0), -9, "Second"),
    Scale(Dec(20, 0), -9, "Second"),
    Scale(Dec(10, 0), -9, "Second"),
    Scale(Dec(5, 0), -9, "Second"),
    Scale(Dec(2, 0), -9, "Second"),
    Scale(Dec(1, 0), -9, "Second") >>

PROBE_SCALES == <<
    Scale(Dec(5, 0), 0, "Volt"),
    Scale(Dec(25, -1), 0, "Volt"),
    Scale(Dec(1, 0), 0, "Volt"),
    Scale(Dec(500, 0), -3, "Volt"),
    Scale(Dec(200, 0), -3, "Volt"),
    Scale(Dec(100, 0), -3, "Volt"),
    Scale(Dec(50, 0), -3, "Volt") >>

\* self.value * 10_f32.powi(self.scale)
get_scale(self) == Dec(self.value.m, self.value.e + self.scale)

Ok(v) == [ok |-> TRUE, value |-> v]
Err(number) == [ok |-> FALSE, number |-> number]

\* a lookup that clamps an index past the end to the last entry
TableGetClamped(table, number) ==
    IF number < Len(table) THEN Ok(table[number + 1]) ELSE Ok(table[Len(table)])

\* Vec::get(number as usize).map(Clone::clone).ok_or_else(..): the tables are 1-based here
TableGet(table, number) ==
    IF number < Len(table) THEN Ok(table[number + 1]) ELSE Err(number)

ScaleVolt_try_from(number) == TableGet(PROBE_SCALES, number)

ScaleSecond_try_from(number) == TableGet(TIME_SCALES, number)

-----------------------------------------------------------------------------
(* Enum codecs: #[derive(TryFromPrimitive)] #[repr(u16)], discriminants from 0 *)

Coupling == <<"DC", "AC">>
Attenuation == <<"OneX", "TenX", "OneHundredX">>
ScrollSpeed == <<"Fast", "Slow">>
TriggerType == <<"Auto", "Single", "Normal">>
TriggerEdge == <<"Rising", "Falling">>
TriggerChannel == <<"Channel1", "Channel2">>
Trigger50 == <<"On", "Off">>

Enums == [Coupling |-> Coupling, Attenuation |-> Attenuation,
          ScrollSpeed |-> ScrollSpeed, TriggerType |-> TriggerType,
          TriggerEdge |-> TriggerEdge, TriggerChannel |-> TriggerChannel,
          Trigger50 |-> Trigger50]

\* a conversion that falls back to the first variant
try_from_primitive_or_first(enum, number) ==
    IF \E i \in 1..Len(Enums[enum]) : i - 1 = number
    THEN Ok(Enums[enum][number + 1])
    ELSE Ok(Enums[enum][1])

\* the derived match: the variant whose discriminant is number, or Err
try_from_primitive(enum, number) ==
    IF \E i \in 1..Len(Enums[enum]) : i - 1 = number
    THEN Ok(Enums[enum][number + 1])
    ELSE Err(number)

-----------------------------------------------------------------------------
(* Measurement arithmetic *)

\* a u32 of two 16-bit limbs
U32(hi, lo) == [hi |-> hi, lo |-> lo, overflow |-> FALSE]

\* (x as u32) << 8
U32Shl8(x) == U32(x \div 256, (x % 256) * 256)

\* (x as u32) << 16 for a u16 x
U32Shl16(x) == U32(x, 0)

\* a + (y as u32) for a u16 y: limb addition with carry; overflow when the carry leaves bit 31
U32AddU16(a, y) ==
    LET lo == a.lo + y
        hi == a.hi + (lo \div U16)
    IN  [hi |-> hi % U16, lo |-> lo % U16, overflow |-> a.overflow \/ hi >= U16]

parse_frequency(high, low) == U32AddU16(U32Shl16(high), low)

\* (measurement as f32) / 1024: an exact binary fraction
process_voltage_measurement(measurement) ==
    [num |-> measurement, den |-> VOLTAGE_MEASUREMENT_DIVISOR]

-----------------------------------------------------------------------------
(* The byte buffer and the primitive reads *)

ByteAt(b, i) == IF i \in DOMAIN b.patch THEN b.patch[i] ELSE b.fill

\* two bytes at p, big-endian
read_u16_be(b, p) == 256 * ByteAt(b, p) + ByteAt(b, p + 1)

\* two bytes at p, little-endian (#[br(little)], read_le)
read_u16_le(b, p) == ByteAt(b, p) + 256 * ByteAt(b, p + 1)

\* a bounds check that lets the read run one byte past the end
CanReadPastEnd(b, p, n) == p + n <= b.len + 1

\* read_exact of n bytes at p succeeds
CanRead(b, p, n) == p + n <= b.len

\* count little-endian u16 at p as a Vec<u16>
ReadVec(b, p, count) ==
    LET fillw == b.fill + 256 * b.fill
        touched == {(o - p) \div 2 :
                      o \in {x \in DOMAIN b.patch : x >= p /\ x < p + 2 * count}}
        odd == {i \in touched : read_u16_le(b, p + 2 * i) # fillw}
    IN  [count |-> count, fill |-> fillw,
         patch |-> [i \in odd |-> read_u16_le(b, p + 2 * i)]]

\* values[i] of a Vec<u16>, i from 0
VecAt(values, i) == IF i \in DOMAIN values.patch THEN values.patch[i] ELSE values.fill

-----------------------------------------------------------------------------
(* The binread layouts: one entry per field, in declaration order.          *)
(* seek_before is -1 where the field has none.                              *)

Fld(name, pad_before) ==
    [name |-> name, kind |-> "u16", pad_before |-> pad_before, seek_before |-> -1]

\* a block sought eight bytes early
BlkEarly(name, seek_before) ==
    [name |-> name, kind |-> "Measurements", pad_before |-> 0,
     seek_before |-> seek_before - 8]

Blk(name, seek_before) ==
    [name |-> name, kind |-> "Measurements", pad_before |-> 0, seek_before |-> seek_before]

Run(name, count, seek_before) ==
    [name |-> name, kind |-> "Vec", count |-> count, pad_before |-> 0,
     seek_before |-> seek_before]

HeaderLayout == <<
    Fld("channel1_scale", 4),
    Fld("channel1_coupling", 2),
    Fld("channel1_probe", 0),
    Fld("channel2_scale", 2),
    Fld("channel2_coupling", 2),
    Fld("channel2_probe", 0),
    Fld("time_scale", 0),
    Fld("scroll_speed", 0),
    Fld("trigger_type", 0),
    Fld("trigger_edge", 0),
    Fld("trigger_channel", 0),
    Fld("channel1_offset", 52),
    Fld("channel2_offset", 0),
    Fld("screen_brightness", 32),
    Fld("grid_brightness", 0),
    Fld("trigger_50", 0),
    Blk("channel1_measurements", 208),
    Blk("channel2_measurements", 256) >>

MeasurementsLayout == <<
    Fld("vmax", 2),
    Fld("vmin", 2),
    Fld("vavg", 2),
    Fld("vrms", 2),
    Fld("vpp", 2),
    Fld("vp", 2),
    Fld("frequency_high", 0),
    Fld("frequency_low", 0),
    Fld("cycle_ns", 2),
    Fld("time_plus_ns", 2),
    Fld("time_minus_ns", 2),
    Fld("duty_plus_percentage", 2),
    Fld("duty_minus_percentage", 2) >>

FileLayout == <<
    [name |-> "header", kind |-> "Header", pad_before |-> 0, seek_before |-> -1],
    Run("channel11", 1500, 1000),
    Run("channel21", 1500, -1),
    Run("channel12", 750, -1),
    Run("channel22", 750, -1) >>

\* the cursor after a field's seek_before, then after its pad_before
AfterSeek(f, p) == IF f.seek_before >= 0 THEN f.seek_before ELSE p
AfterPad(f, p) == AfterSeek(f, p) + f.pad_before

\* the field after fld in the nested layouts
NextField(fld) ==
    IF fld.meas > 0 /\ fld.meas < Len(MeasurementsLayout)
    THEN [fld EXCEPT !.meas = @ + 1]
    ELSE IF fld.file = 1 /\ fld.header < Len(HeaderLayout)
    THEN [file |-> 1, header |-> fld.header + 1, meas |-> 0]
    ELSE [file |-> fld.file + 1, header |-> 0, meas |-> 0]

-----------------------------------------------------------------------------
(* Point generation *)

\* the difference taken in u16 with wrap-around
DiffWrapping(voltage, offset) == (voltage - offset) % U16

\* *voltage as f32 - offset as f32
Diff(voltage, offset) == voltage - offset

\* the closure of generate_points at one (index, voltage)
PointOf(index, voltage, voltage_scale, time_scale, offset) ==
    [time |-> DecDiv(DecMulInt(index, get_scale(time_scale)), DIVISION_POINTS),
     voltage |-> DecDiv(DecMulInt(Diff(voltage, offset), get_scale(voltage_scale)),
                        DIVISION_POINTS)]

\* values.iter().enumerate().map(..).collect(), left unevaluated
generate_points(values, voltage_scale, time_scale, offset) ==
    [count |-> values.count, values |-> values, voltage_scale |-> voltage_scale,
     time_scale |-> time_scale, offset |-> offset]

\* points[i] of a Vec<Point>, i from 0
PointAt(points, i) ==
    PointOf(i, VecAt(points.values, i), points.voltage_scale, points.time_scale,
            points.offset)

-----------------------------------------------------------------------------
(* main *)

\* Result::unwrap_or_default
unwrap_or_default(r) ==
    IF r.ok THEN [panic |-> FALSE, value |-> r.value]
    ELSE [panic |-> FALSE, value |-> "default"]

\* Result::unwrap
unwrap(r) == IF r.ok THEN [panic |-> FALSE, value |-> r.value] ELSE [panic |-> TRUE]

StScale(dst, src, unit) == [op |-> "scale", dst |-> dst, src |-> src, unit |-> unit]
StPoints(dst, values, scale, offset) ==
    [op |-> "points", dst |-> dst, values |-> values, scale |-> scale, offset |-> offset]
StEnum(dst, src, enum) == [op |-> "enum", dst |-> dst, src |-> src, enum |-> enum]
StMeasurements(dst, src) == [op |-> "measurements", dst |-> dst, src |-> src]

\* the Output::Parsed arm with channel 2's points taken from channel 2's own run
ParsedStepsOwnRun == <<
    StScale("time_scale", "time_scale", "Second"),
    StScale("chanel1_scale", "channel1_scale", "Volt"),
    StScale("channel2_scale", "channel2_scale", "Volt"),
    StPoints("channel1_points", "channel11", "chanel1_scale", "channel1_offset"),
    StPoints("channel2_points", "channel21", "channel2_scale", "channel2_offset"),
    StEnum("trigger.trigger_type", "trigger_type", "TriggerType"),
    StEnum("trigger.edge", "trigger_edge", "TriggerEdge"),
    StEnum("trigger.channel", "trigger_channel", "TriggerChannel"),
    StEnum("trigger.trigger_50", "trigger_50", "Trigger50"),
    StEnum("channel1.coupling", "channel1_coupling", "Coupling"),
    StEnum("channel1.attenuation", "channel1_probe", "Attenuation"),
    StMeasurements("channel1.measurements", "channel1_measurements"),
    StEnum("channel2.coupling", "channel2_coupling", "Coupling"),
    StEnum("channel2.attenuation", "channel2_probe", "Attenuation"),
    StMeasurements("channel2.measurements", "channel2_measurements"),
    [op |-> "write"] >>

\* the statements of the Output::Parsed arm, in evaluation order
ParsedSteps == <<
    StScale("time_scale", "time_scale", "Second"),
    StScale("chanel1_scale", "channel1_scale", "Volt"),
    StScale("channel2_scale", "channel2_scale", "Volt"),
    StPoints("channel1_points", "channel11", "chanel1_scale", "channel1_offset"),
    StPoints("channel2_points", "channel11", "channel2_scale", "channel2_offset"),
    StEnum("trigger.trigger_type", "trigger_type", "TriggerType"),
    StEnum("trigger.edge", "trigger_edge", "TriggerEdge"),
    StEnum("trigger.channel", "trigger_channel", "TriggerChannel"),
    StEnum("trigger.trigger_50", "trigger_50", "Trigger50"),
    StEnum("channel1.coupling", "channel1_coupling", "Coupling"),
    StEnum("channel1.attenuation", "channel1_probe", "Attenuation"),
    StMeasurements("channel1.measurements", "channel1_measurements"),
    StEnum("channel2.coupling", "channel2_coupling", "Coupling"),
    StEnum("channel2.attenuation", "channel2_probe", "Attenuation"),
    StMeasurements("channel2.measurements", "channel2_measurements"),
    [op |-> "write"] >>

\* ProcessedMeasurements { .. } of one Measurements block
Processed(m) ==
    [vmax |-> process_voltage_measurement(m.vmax),
     vmin |-> process_voltage_measurement(m.vmin),
     vavg |-> process_voltage_measurement(m.vavg),
     vrms |-> process_voltage_measurement(m.vrms),
     vpp |-> process_voltage_measurement(m.vpp),
     vp |-> process_voltage_measurement(m.vp),
     frequency |-> parse_frequency(m.frequency_high, m.frequency_low),
     cycle_ns |-> m.cycle_ns,
     time_plus_ns |-> m.time_plus_ns,
     time_minus_ns |-> m.time_minus_ns,
     duty_plus_percentage |-> m.duty_plus_percentage,
     duty_minus_percentage |-> m.duty_minus_percentage]

\* Data { trigger, time_scale, channel1, channel2 } from the values built
Data(d) ==
    [trigger |-> [trigger_type |-> d["trigger.trigger_type"],
                  edge |-> d["trigger.edge"],
                  channel |-> d["trigger.channel"],
                  trigger_50 |-> d["trigger.trigger_50"]],
     time_scale |-> d["time_scale"],
     channel1 |-> [scale |-> d["chanel1_scale"],
                   coupling |-> d["channel1.coupling"],
                   attenuation |-> d["channel1.attenuation"],
                   measurements |-> d["channel1.measurements"],
                   points |-> d["channel1_points"]],
     channel2 |-> [scale |-> d["channel2_scale"],
                   coupling |-> d["channel2.coupling"],
                   attenuation |-> d["channel2.attenuation"],
                   measurements |-> d["channel2.measurements"],
                   points |-> d["channel2_points"]]]

\* the File as serialized in raw mode
RawFile(h, s) ==
    [header |-> h, channel11 |-> s["channel11"], channel21 |-> s["channel21"],
     channel12 |-> s["channel12"], channel22 |-> s["channel22"]]

-----------------------------------------------------------------------------
(* Inputs *)

Lens == {0, 1, 5, 6, 125, 126, 209, 211, 212, 255, 303, 304, 999, 1000, 1001,
         3999, 4000, 6999, 7000, 8500, 9998, 9999}
        \cup (10000 .. 10000 + MaxExtra)

Fills == {0, 1, 255}

\* every field of the header and of the two blocks, the pads around them and
\* the ends of the four sample runs
PatchOffsets ==
    {2 * k : k \in 0..16} \cup {82, 84, 86, 88, 118, 120, 122, 124, 126, 206}
    \cup {2 * k : k \in 104..152} \cup {998, 1000, 1002, 3998, 4000, 6998, 7000,
                                        8498, 8500, 9998}

PatchWords == {1, 2, 3, 6, 7, 32, 33, 258, 65535}

Blank(len, fill) == [exists |-> TRUE, len |-> len, fill |-> fill, patch |-> Empty]

Patched(b, o, w) == [b EXCEPT !.patch = (o :> w % 256) @@ (o + 1 :> w \div 256) @@ @]

Absent == [exists |-> FALSE, len |-> 0, fill |-> 0, patch |-> Empty]

Files ==
    {Patched(Blank(10000, 0), o, w) : o \in PatchOffsets, w \in PatchWords}
    \cup {Blank(n, f) : n \in Lens, f \in Fills}
    \cup {Absent}

-----------------------------------------------------------------------------
(* The run of the tool *)

Start(o, b) ==
    /\ output = o
    /\ buf = b
    /\ pc = "open"
    /\ pos = 0
    /\ field = [file |-> 1, header |-> 1, meas |-> 0]
    /\ header = Empty
    /\ samples = Empty
    /\ at = Empty
    /\ moves = <<0, 0, 0, 0>>
    /\ ip = 1
    /\ data = Empty
    /\ stdout = <<>>

Init ==
    /\ \E o \in {"raw", "parsed"}, b \in Files : Start(o, b)
    /\ prev = <<>>
    /\ call = <<>>
    /\ ret = <<>>

\* FsFile::open(args.file).unwrap()
Open ==
    /\ pc = "open"
    /\ pc' = IF buf.exists THEN "decode" ELSE "panicked"
    /\ UNCHANGED <<output, buf, pos, field, header, samples, at, moves, ip, data,
                   stdout, prev, call, ret>>

\* one u16 field of Header
ReadHeaderField ==
    /\ pc = "decode"
    /\ field.file = 1 /\ field.meas = 0
    /\ LET f == HeaderLayout[field.header]
           p1 == AfterSeek(f, pos)
           p2 == AfterPad(f, pos)
       IN  /\ f.kind = "u16"
           /\ IF CanRead(buf, p2, 2)
              THEN /\ header' = header @@ (f.name :> read_u16_le(buf, p2))
                   /\ at' = at @@ (f.name :> p2)
                   /\ pos' = p2 + 2
                   /\ moves' = <<pos, p1, p2, p2 + 2>>
                   /\ field' = NextField(field)
                   /\ UNCHANGED pc
              ELSE /\ pc' = "panicked"
                   /\ pos' = p2
                   /\ moves' = <<pos, p1, p2, p2>>
                   /\ UNCHANGED <<header, at, field>>
    /\ UNCHANGED <<output, buf, samples, ip, data, stdout, prev, call, ret>>

\* the seek to a Measurements block of Header
EnterMeasurements ==
    /\ pc = "decode"
    /\ field.file = 1 /\ field.meas = 0
    /\ LET f == HeaderLayout[field.header]
           p1 == AfterSeek(f, pos)
           p2 == AfterPad(f, pos)
       IN  /\ f.kind = "Measurements"
           /\ header' = header @@ (f.name :> Empty)
           /\ at' = at @@ (f.name :> Empty)
           /\ pos' = p2
           /\ moves' = <<pos, p1, p2, p2>>
           /\ field' = [field EXCEPT !.meas = 1]
    /\ UNCHANGED <<output, buf, pc, samples, ip, data, stdout, prev, call, ret>>

\* one u16 field of a Measurements block
ReadMeasurementsField ==
    /\ pc = "decode"
    /\ field.file = 1 /\ field.meas > 0
    /\ LET b == HeaderLayout[field.header].name
           f == MeasurementsLayout[field.meas]
           p1 == AfterSeek(f, pos)
           p2 == AfterPad(f, pos)
       IN  IF CanRead(buf, p2, 2)
           THEN /\ header' = [header EXCEPT ![b] = @ @@ (f.name :> read_u16_le(buf, p2))]
                /\ at' = [at EXCEPT ![b] = @ @@ (f.name :> p2)]
                /\ pos' = p2 + 2
                /\ moves' = <<pos, p1, p2, p2 + 2>>
                /\ field' = NextField(field)
                /\ UNCHANGED pc
           ELSE /\ pc' = "panicked"
                /\ pos' = p2
                /\ moves' = <<pos, p1, p2, p2>>
                /\ UNCHANGED <<header, at, field>>
    /\ UNCHANGED <<output, buf, samples, ip, data, stdout, prev, call, ret>>

\* one sample run of File
ReadSamples ==
    /\ pc = "decode"
    /\ field.file > 1 /\ field.file <= Len(FileLayout)
    /\ LET f == FileLayout[field.file]
           p1 == AfterSeek(f, pos)
           p2 == AfterPad(f, pos)
       IN  IF CanRead(buf, p2, 2 * f.count)
           THEN /\ samples' = samples @@ (f.name :> ReadVec(buf, p2, f.count))
                /\ at' = at @@ (f.name :> p2)
                /\ pos' = p2 + 2 * f.count
                /\ moves' = <<pos, p1, p2, p2 + 2 * f.count>>
                /\ field' = NextField(field)
                /\ UNCHANGED pc
           ELSE /\ pc' = "panicked"
                /\ pos' = p2
                /\ moves' = <<pos, p1, p2, p2>>
                /\ UNCHANGED <<samples, at, field>>
    /\ UNCHANGED <<output, buf, header, ip, data, stdout, prev, call, ret>>

\* read_le() returned Ok: match args.output
FinishDecode ==
    /\ pc = "decode"
    /\ field.file > Len(FileLayout)
    /\ pc' = output
    /\ UNCHANGED <<output, buf, pos, field, header, samples, at, moves, ip, data,
                   stdout, prev, call, ret>>

\* Output::Raw => serde_json::to_writer(stdout(), &file)
WriteRaw ==
    /\ pc = "raw"
    /\ stdout' = Append(stdout, RawFile(header, samples))
    /\ pc' = "done"
    /\ UNCHANGED <<output, buf, pos, field, header, samples, at, moves, ip, data,
                   prev, call, ret>>

\* file.header.<src>.try_into().unwrap() for a Scale
ResolveScale ==
    /\ pc = "parsed"
    /\ LET s == ParsedSteps[ip]
       IN  /\ s.op = "scale"
           /\ LET r == IF s.unit = "Second" THEN ScaleSecond_try_from(header[s.src])
                       ELSE ScaleVolt_try_from(header[s.src])
                  u == unwrap(r)
              IN  IF u.panic
                  THEN pc' = "panicked" /\ UNCHANGED <<ip, data>>
                  ELSE /\ data' = data @@ (s.dst :> u.value)
                       /\ ip' = ip + 1
                       /\ UNCHANGED pc
    /\ UNCHANGED <<output, buf, pos, field, header, samples, at, moves, stdout,
                   prev, call, ret>>

\* generate_points(&file.<values>, &<scale>, &time_scale, file.header.<offset>)
GeneratePoints ==
    /\ pc = "parsed"
    /\ LET s == ParsedSteps[ip]
       IN  /\ s.op = "points"
           /\ data' = data @@ (s.dst :> generate_points(samples[s.values], data[s.scale],
                                                       data["time_scale"], header[s.offset]))
           /\ ip' = ip + 1
    /\ UNCHANGED <<output, buf, pc, pos, field, header, samples, at, moves, stdout,
                   prev, call, ret>>

\* file.header.<src>.try_into().unwrap() for an enum
ResolveEnum ==
    /\ pc = "parsed"
    /\ LET s == ParsedSteps[ip]
       IN  /\ s.op = "enum"
           /\ LET u == unwrap(try_from_primitive(s.enum, header[s.src]))
              IN  IF u.panic
                  THEN pc' = "panicked" /\ UNCHANGED <<ip, data>>
                  ELSE /\ data' = data @@ (s.dst :> u.value)
                       /\ ip' = ip + 1
                       /\ UNCHANGED pc
    /\ UNCHANGED <<output, buf, pos, field, header, samples, at, moves, stdout,
                   prev, call, ret>>

\* measurements: ProcessedMeasurements { .. }
ProcessMeasurements ==
    /\ pc = "parsed"
    /\ LET s == ParsedSteps[ip]
       IN  /\ s.op = "measurements"
           /\ data' = data @@ (s.dst :> Processed(header[s.src]))
           /\ ip' = ip + 1
    /\ UNCHANGED <<output, buf, pc, pos, field, header, samples, at, moves, stdout,
                   prev, call, ret>>

\* serde_json::to_writer(stdout(), &data)
WriteParsed ==
    /\ pc = "parsed"
    /\ ParsedSteps[ip].op = "write"
    /\ stdout' = Append(stdout, Data(data))
    /\ pc' = "done"
    /\ UNCHANGED <<output, buf, pos, field, header, samples, at, moves, ip, data,
                   prev, call, ret>>

Next ==
    \/ Open
    \/ ReadHeaderField
    \/ EnterMeasurements
    \/ ReadMeasurementsField
    \/ ReadSamples
    \/ FinishDecode
    \/ WriteRaw
    \/ ResolveScale
    \/ GeneratePoints
    \/ ResolveEnum
    \/ ProcessMeasurements
    \/ WriteParsed

Spec == Init /\ [][Next]_vars

-----------------------------------------------------------------------------
(* A second run of the tool on a file that differs from the first in one word *)

TwinOffsets == {14, 86, 1000, 3998, 4000, 4002, 6998, 7000, 8500, 9998}
TwinWords == {1, 513}

TwinFiles ==
    {Patched(Blank(10000, 0), o, w) :
        o \in {14, 22, 24, 84, 86, 1000, 1002, 3998, 4000, 9998}, w \in {1, 7, 258}}
    \cup {Blank(n, f) : n \in {999, 10000 + MaxExtra}, f \in {0, 255}}
    \cup {Absent}

InitTwin ==
    /\ \E o \in {"raw", "parsed"}, b \in TwinFiles : Start(o, b)
    /\ prev = <<>>
    /\ call = <<>>
    /\ ret = <<>>

Rerun ==
    /\ pc \in {"done", "panicked"}
    /\ prev = <<>>
    /\ buf.exists
    /\ prev' = <<[output |-> output, buf |-> buf, pc |-> pc, stdout |-> stdout]>>
    /\ \E o \in TwinOffsets, w \in TwinWords : buf' = Patched(buf, o, w)
    /\ pc' = "open"
    /\ pos' = 0
    /\ field' = [file |-> 1, header |-> 1, meas |-> 0]
    /\ header' = Empty
    /\ samples' = Empty
    /\ at' = Empty
    /\ moves' = <<0, 0, 0, 0>>
    /\ ip' = 1
    /\ data' = Empty
    /\ stdout' = <<>>
    /\ UNCHANGED <<output, call, ret>>

NextTwin ==
    \/ Open
    \/ ReadHeaderField
    \/ EnterMeasurements
    \/ ReadMeasurementsField
    \/ ReadSamples
    \/ FinishDecode
    \/ WriteRaw
    \/ ResolveScale
    \/ GeneratePoints
    \/ ResolveEnum
    \/ ProcessMeasurements
    \/ WriteParsed
    \/ Rerun

SpecTwin == InitTwin /\ [][NextTwin]_vars

-----------------------------------------------------------------------------
(* Direct calls of the conversions and of the two pure functions *)

Codes == (0 .. MaxCode) \cup U16Edge

SampleVals == {0, 512, 1024, 65535}

SampleSeqs == UNION {[1..n -> SampleVals] : n \in 0..MaxLen}

\* a Vec<u16> of the given elements
VecOf(seq) ==
    [count |-> Len(seq), fill |-> 0,
     patch |-> [i \in {j \in 0..Len(seq) - 1 : seq[j + 1] # 0} |-> seq[i + 1]]]

Range(f) == {f[x] : x \in DOMAIN f}

Calls ==
    {[fn |-> "Scale<Second>", number |-> c] : c \in Codes}
    \cup {[fn |-> "Scale<Volt>", number |-> c] : c \in Codes}
    \cup {[fn |-> "enum", enum |-> e, number |-> c] : e \in DOMAIN Enums, c \in Codes}
    \cup {[fn |-> "parse_frequency", high |-> h, low |-> l] :
            h \in {0, 1, 2} \cup U16Edge, l \in {0, 1, 2} \cup U16Edge}
    \cup {[fn |-> "generate_points", values |-> VecOf(v), voltage_scale |-> vs,
           time_scale |-> ts, offset |-> o] :
            v \in SampleSeqs, vs \in Range(PROBE_SCALES), ts \in Range(TIME_SCALES),
            o \in {0, 512, 65535}}

InitCalls ==
    /\ call \in Calls
    /\ ret = <<>>
    /\ output = "raw"
    /\ buf = Absent
    /\ pc = "lib"
    /\ pos = 0
    /\ field = [file |-> 1, header |-> 1, meas |-> 0]
    /\ header = Empty
    /\ samples = Empty
    /\ at = Empty
    /\ moves = <<0, 0, 0, 0>>
    /\ ip = 1
    /\ data = Empty
    /\ stdout = <<>>
    /\ prev = <<>>

CallScaleSecond ==
    /\ ret = <<>>
    /\ call.fn = "Scale<Second>"
    /\ ret' = <<ScaleSecond_try_from(call.number)>>
    /\ UNCHANGED <<mainVars, call>>

CallScaleVolt ==
    /\ ret = <<>>
    /\ call.fn = "Scale<Volt>"
    /\ ret' = <<ScaleVolt_try_from(call.number)>>
    /\ UNCHANGED <<mainVars, call>>

CallEnum ==
    /\ ret = <<>>
    /\ call.fn = "enum"
    /\ ret' = <<try_from_primitive(call.enum, call.number)>>
    /\ UNCHANGED <<mainVars, call>>

CallParseFrequency ==
    /\ ret = <<>>
    /\ call.fn = "parse_frequency"
    /\ ret' = <<parse_frequency(call.high, call.low)>>
    /\ UNCHANGED <<mainVars, call>>

CallGeneratePoints ==
    /\ ret = <<>>
    /\ call.fn = "generate_points"
    /\ ret' = <<generate_points(call.values, call.voltage_scale, call.time_scale,
                                call.offset)>>
    /\ UNCHANGED <<mainVars, call>>

NextCalls ==
    \/ CallScaleSecond
    \/ CallScaleVolt
    \/ CallEnum
    \/ CallParseFrequency
    \/ CallGeneratePoints

SpecCalls == InitCalls /\ [][NextCalls]_vars

-----------------------------------------------------------------------------
(* What the properties below are stated with *)

BlockNames == {"channel1_measurements", "channel2_measurements"}

WordNames ==
    {"channel1_scale", "channel1_coupling", "channel1_probe", "channel2_scale",
     "channel2_coupling", "channel2_probe", "time_scale", "scroll_speed",
     "trigger_type", "trigger_edge", "trigger_channel", "channel1_offset",
     "channel2_offset", "screen_brightness", "grid_brightness", "trigger_50"}

MeasurementNames ==
    {"vmax", "vmin", "vavg", "vrms", "vpp", "vp", "frequency_high", "frequency_low",
     "cycle_ns", "time_plus_ns", "time_minus_ns", "duty_plus_percentage",
     "duty_minus_percentage"}

RunCounts == [channel11 |-> 1500, channel21 |-> 1500, channel12 |-> 750, channel22 |-> 750]

\* the 16-bit little-endian value of the two bytes at offset o of the input
LE16(b, o) == ByteAt(b, o) + 256 * ByteAt(b, o + 1)

\* the offset of every header field in the file
DocumentedOffset ==
    [channel1_scale |-> 4, channel1_coupling |-> 8, channel1_probe |-> 10,
     channel2_scale |-> 14, channel2_coupling |-> 18, channel2_probe |-> 20,
     time_scale |-> 22, scroll_speed |-> 24, trigger_type |-> 26,
     trigger_edge |-> 28, trigger_channel |-> 30, channel1_offset |-> 84,
     channel2_offset |-> 86, screen_brightness |-> 120, grid_brightness |-> 122,
     trigger_50 |-> 124]

BlockStart == [channel1_measurements |-> 208, channel2_measurements |-> 256]

\* the offset of every field of a Measurements block from the block's start
OffsetInBlock ==
    [vmax |-> 2, vmin |-> 6, vavg |-> 10, vrms |-> 14, vpp |-> 18, vp |-> 22,
     frequency_high |-> 24, frequency_low |-> 26, cycle_ns |-> 30,
     time_plus_ns |-> 34, time_minus_ns |-> 38, duty_plus_percentage |-> 42,
     duty_minus_percentage |-> 46]

\* the whole File has been decoded
DecodeComplete ==
    /\ DOMAIN header = WordNames \cup BlockNames
    /\ \A b \in BlockNames : DOMAIN header[b] = MeasurementNames
    /\ DOMAIN samples = DOMAIN RunCounts
    /\ \A r \in DOMAIN RunCounts : samples[r].count = RunCounts[r]

\* every scale and enum code that main converts in parsed mode is in its range
MainResolutionsSucceed ==
    /\ header["time_scale"] < 33
    /\ header["channel1_scale"] < 7
    /\ header["channel2_scale"] < 7
    /\ header["trigger_type"] < 3
    /\ header["trigger_edge"] < 2
    /\ header["trigger_channel"] < 2
    /\ header["trigger_50"] < 2
    /\ header["channel1_coupling"] < 2
    /\ header["channel1_probe"] < 3
    /\ header["channel2_coupling"] < 2
    /\ header["channel2_probe"] < 3

CompleteChannel(c) ==
    /\ DOMAIN c = {"scale", "coupling", "attenuation", "measurements", "points"}
    /\ c.points.count = 1500
    /\ DOMAIN c.measurements =
         {"vmax", "vmin", "vavg", "vrms", "vpp", "vp", "frequency", "cycle_ns",
          "time_plus_ns", "time_minus_ns", "duty_plus_percentage",
          "duty_minus_percentage"}

CompleteData(d) ==
    /\ DOMAIN d = {"trigger", "time_scale", "channel1", "channel2"}
    /\ DOMAIN d.trigger = {"trigger_type", "edge", "channel", "trigger_50"}
    /\ CompleteChannel(d.channel1)
    /\ CompleteChannel(d.channel2)

CompleteRaw(d) ==
    /\ DOMAIN d = {"header"} \cup DOMAIN RunCounts
    /\ DOMAIN d.header = WordNames \cup BlockNames
    /\ \A b \in BlockNames : DOMAIN d.header[b] = MeasurementNames
    /\ \A r \in DOMAIN RunCounts : d[r].count = RunCounts[r]

-----------------------------------------------------------------------------
(* C1 *)

\* C1: standard output is written only after the whole decode and, in parsed
\* mode, every scale resolution, enum resolution and point generation of main
\* have succeeded: whenever something has been written, main is done, exactly
\* one document was written, the File was decoded completely, in parsed mode
\* every code main converts was in range and the document is the complete
\* record; a run that failed has written nothing.
C1_CompleteOrNothing ==
    /\ Len(stdout) <= 1
    /\ pc # "done" => stdout = <<>>
    /\ stdout # <<>> =>
         /\ DecodeComplete
         /\ output = "raw" => CompleteRaw(stdout[1])
         /\ output = "parsed" => MainResolutionsSucceed /\ CompleteData(stdout[1])

\* a parsed run that decoded the file, generated both point series and then
\* failed on an enum code, with nothing written
C1_Witness ==
    /\ pc = "panicked"
    /\ output = "parsed"
    /\ "channel2_points" \in DOMAIN data
    /\ stdout = <<>>

-----------------------------------------------------------------------------
(* C2 *)

\* C2: in parsed mode a record is emitted only if each of the nine enum fields
\* of the header (both couplings, both attenuations, scroll speed, trigger
\* type, edge, channel and trigger-50) holds a code of its declared range.
C2_EveryEnumFieldValidated ==
    (output = "parsed" /\ stdout # <<>>) =>
        /\ header["channel1_coupling"] < 2
        /\ header["channel2_coupling"] < 2
        /\ header["channel1_probe"] < 3
        /\ header["channel2_probe"] < 3
        /\ header["scroll_speed"] < 2
        /\ header["trigger_type"] < 3
        /\ header["trigger_edge"] < 2
        /\ header["trigger_channel"] < 2
        /\ header["trigger_50"] < 2

-----------------------------------------------------------------------------
(* C3 *)

\* C3: a file shorter than 10000 bytes never gets past the decode in either
\* output mode: nothing is written, main never reaches its output branch, and
\* the run can only end in the panic of the failed read.
C3_TruncatedFails ==
    (buf.exists /\ buf.len < 10000) =>
        /\ pc \in {"open", "decode", "panicked"}
        /\ stdout = <<>>
        /\ (~ENABLED Next) => pc = "panicked"

\* the file cut one byte before the sample block: the header was decoded and
\* the read of the first sample run failed
C3_Witness ==
    /\ buf.exists /\ buf.len = 999
    /\ pc = "panicked"
    /\ field.file = 2
    /\ DOMAIN samples = {}
    /\ stdout = <<>>

-----------------------------------------------------------------------------
(* C6 *)

\* C6: in raw mode a file of at least the full 10000 bytes never fails to
\* decode whatever its bytes, and every header and measurement field of the
\* document written is the 16-bit little-endian value of the two bytes at the
\* field's fixed offset, so the bytes of the pads have no effect.
C6_RawFieldsAreTheBytes ==
    (output = "raw" /\ buf.exists /\ buf.len >= 10000) =>
        /\ pc # "panicked"
        /\ (~ENABLED Next) => pc = "done"
        /\ pc = "done" =>
             /\ Len(stdout) = 1
             /\ CompleteRaw(stdout[1])
             /\ \A n \in WordNames :
                    stdout[1].header[n] = LE16(buf, DocumentedOffset[n])
             /\ \A b \in BlockNames : \A n \in MeasurementNames :
                    stdout[1].header[b][n] = LE16(buf, BlockStart[b] + OffsetInBlock[n])

\* a raw document of a 10000-byte file whose scale and enum codes are all out
\* of range
C6_Witness ==
    /\ output = "raw" /\ pc = "done" /\ buf.len = 10000
    /\ stdout[1].header["time_scale"] = 65535
    /\ stdout[1].header["trigger_50"] = 65535

-----------------------------------------------------------------------------
(* C10 *)

\* the byte ranges decoded into the fields so far
Extents ==
    {<<at[n], at[n] + 2>> : n \in DOMAIN at \cap WordNames}
    \cup UNION {{<<at[b][n], at[b][n] + 2>> : n \in DOMAIN at[b]} :
                  b \in DOMAIN at \cap BlockNames}
    \cup {<<at[r], at[r] + 2 * RunCounts[r]>> : r \in DOMAIN at \cap DOMAIN RunCounts}

FieldsDecoded ==
    Cardinality(DOMAIN at \ BlockNames)
    + (IF "channel1_measurements" \in DOMAIN at
       THEN Cardinality(DOMAIN at["channel1_measurements"]) ELSE 0)
    + (IF "channel2_measurements" \in DOMAIN at
       THEN Cardinality(DOMAIN at["channel2_measurements"]) ELSE 0)

C10_State ==
    /\ moves[1] <= moves[2] /\ moves[2] <= moves[3] /\ moves[3] <= moves[4]
    /\ moves[4] = pos
    /\ LET E == Extents
       IN  /\ Cardinality(E) = FieldsDecoded
           /\ \A x \in E : \A y \in E : x # y => (x[2] <= y[1] \/ y[2] <= x[1])
    /\ (pc = "decode" /\ field = [file |-> 1, header |-> 17, meas |-> 0]) => pos = 126
    /\ (pc = "decode" /\ field = [file |-> 1, header |-> 18, meas |-> 0]) => pos = 256
    /\ (pc = "decode" /\ field.file = 2) => pos = 304
    /\ pc \in {"raw", "parsed", "done"} => pos = 10000

\* C10: during a decode the cursor never moves backwards: within every field
\* the seek_before target is at or after the cursor, the pad and the read only
\* advance it, and from one step to the next it never decreases; the header's
\* forward fields end at 126, the first block ends at 256, the second at 304;
\* no two fields are decoded from overlapping bytes; a successful decode ends
\* at 10000.
C10_CursorOnlyForward == [](C10_State) /\ [][pos' >= pos]_vars

\* a completed decode: the last run was read from 8500 to 10000
C10_Witness ==
    /\ pc = "done"
    /\ pos = 10000
    /\ moves = <<8500, 8500, 8500, 10000>>
    /\ at["channel2_measurements"]["vmax"] = 258

-----------------------------------------------------------------------------
(* C9 *)

\* the two files have the same length and the same bytes outside 4000..9999
SameOutsideTail(a, b) ==
    /\ a.len = b.len
    /\ a.fill = b.fill
    /\ \A o \in (DOMAIN a.patch \cup DOMAIN b.patch) \ (4000..9999) :
          ByteAt(a, o) = ByteAt(b, o)

DifferInTail(a, b) ==
    \E o \in (DOMAIN a.patch \cup DOMAIN b.patch) \cap (4000..9999) :
        ByteAt(a, o) # ByteAt(b, o)

\* C9: the point series emitted for channel 2 has one point per sample of
\* channel 1's coarse run (the 1500 words from byte 1000), computed with
\* channel 2's voltage scale (the code at byte 14) and channel 2's zero offset
\* (the word at byte 86); and of two parsed runs on files that differ only in
\* bytes 4000..9999, either both fail or both write the same record.
C9_Channel2FromChannel1 ==
    /\ (pc = "done" /\ output = "parsed") =>
         LET pts == stdout[1].channel2.points
         IN  /\ pts.count = 1500
             /\ \A i \in 0..1499 :
                   PointAt(pts, i) =
                     PointOf(i, LE16(buf, 1000 + 2 * i),
                             PROBE_SCALES[LE16(buf, 14) + 1],
                             TIME_SCALES[LE16(buf, 22) + 1], LE16(buf, 86))
    /\ (/\ prev # <<>>
        /\ output = "parsed"
        /\ pc \in {"done", "panicked"}
        /\ SameOutsideTail(prev[1].buf, buf)) =>
           /\ pc = prev[1].pc
           /\ stdout = prev[1].stdout

\* two parsed runs that both wrote a record, on files that differ in the
\* tail and whose channel-1 coarse run is not blank
C9_Witness ==
    /\ prev # <<>>
    /\ output = "parsed"
    /\ pc = "done"
    /\ SameOutsideTail(prev[1].buf, buf)
    /\ DifferInTail(prev[1].buf, buf)
    /\ DOMAIN stdout[1].channel2.points.values.patch # {}
    /\ stdout = prev[1].stdout

-----------------------------------------------------------------------------
(* C4 *)

\* a decimal without trailing zeros in its mantissa
RECURSIVE Norm(_)
Norm(d) ==
    IF d.m # 0 /\ d.m % 10 = 0 THEN Norm(Dec(d.m \div 10, d.e + 1)) ELSE d

\* entry i of the 5/2/1 progression that starts at 50: 5, 2 or 1 times 10^(1 - i \div 3)
TimePerDivision(i) == Dec(<<5, 2, 1>>[(i % 3) + 1], 1 - (i \div 3))

\* 5 V, 2.5 V, 1 V, 500 mV, 200 mV, 100 mV, 50 mV
VoltPerDivision ==
    <<Dec(5, 0), Dec(25, -1), Dec(1, 0), Dec(5, -1), Dec(2, -1), Dec(1, -1), Dec(5, -2)>>

\* C4 as stated: resolving a time index succeeds exactly when it is below 32
\* (32 entries, 50 s down to 1 ns) and gives the entry at that position; a
\* voltage index exactly when it is below 7.
C4_ThirtyTwoTimeEntries ==
    /\ (ret # <<>> /\ call.fn = "Scale<Second>") =>
          /\ ret[1].ok <=> call.number < 32
          /\ ret[1].ok => Norm(get_scale(ret[1].value)) = TimePerDivision(call.number)
    /\ (ret # <<>> /\ call.fn = "Scale<Volt>") =>
          /\ ret[1].ok <=> call.number < 7
          /\ ret[1].ok => Norm(get_scale(ret[1].value)) = VoltPerDivision[call.number + 1]

\* C4, amended: the time table has 33 entries, 50 s down to 1 ns in the
\* 5/2/1 progression, and the voltage table 7, 5 V down to 50 mV; resolving an
\* index succeeds exactly when it is below the table length (33, 7), gives the
\* entry at that position with the table's unit, and fails for every index at
\* or above the length.
C4_ThirtyThreeTimeEntries ==
    /\ (ret # <<>> /\ call.fn = "Scale<Second>") =>
          /\ ret[1].ok <=> call.number < 33
          /\ ~ret[1].ok => ret[1] = Err(call.number)
          /\ ret[1].ok =>
               /\ Norm(get_scale(ret[1].value)) = TimePerDivision(call.number)
               /\ ret[1].value.unit = "Second"
               /\ ret[1].value.scale \in {0, -3, -6, -9}
    /\ (ret # <<>> /\ call.fn = "Scale<Volt>") =>
          /\ ret[1].ok <=> call.number < 7
          /\ ~ret[1].ok => ret[1] = Err(call.number)
          /\ ret[1].ok =>
               /\ Norm(get_scale(ret[1].value)) = VoltPerDivision[call.number + 1]
               /\ ret[1].value.unit = "Volt"
               /\ ret[1].value.scale \in {0, -3}

\* time index 32 resolved to the last entry, 1 ns
C4_Witness ==
    /\ ret # <<>>
    /\ call.fn = "Scale<Second>"
    /\ call.number = 32
    /\ ret[1].ok
    /\ Norm(get_scale(ret[1].value)) = Dec(1, -9)

-----------------------------------------------------------------------------
(* C5 *)

\* the variants of every codec, in declaration order
DeclaredVariants ==
    [Coupling |-> <<"DC", "AC">>,
     Attenuation |-> <<"OneX", "TenX", "OneHundredX">>,
     ScrollSpeed |-> <<"Fast", "Slow">>,
     TriggerType |-> <<"Auto", "Single", "Normal">>,
     TriggerEdge |-> <<"Rising", "Falling">>,
     TriggerChannel |-> <<"Channel1", "Channel2">>,
     Trigger50 |-> <<"On", "Off">>]

\* C5: for each of the seven codecs, a code below the variant count resolves
\* to the variant at that position in declaration order, and every code at or
\* above the count fails instead of resolving to any variant.
C5_EnumCodes ==
    (ret # <<>> /\ call.fn = "enum") =>
        LET v == DeclaredVariants[call.enum]
        IN  IF call.number < Len(v)
            THEN ret[1] = Ok(v[call.number + 1])
            ELSE ~ret[1].ok /\ ret[1].number = call.number

\* a code equal to the variant count refused
C5_Witness ==
    /\ ret # <<>>
    /\ call.fn = "enum"
    /\ call.enum = "ScrollSpeed"
    /\ call.number = 2
    /\ ~ret[1].ok

-----------------------------------------------------------------------------
(* C7 *)

\* the sign of a decimal
Sign(d) == IF d.m > 0 THEN 1 ELSE IF d.m < 0 THEN -1 ELSE 0

\* C7: generate_points returns one point per sample, in index order, with
\* time[i] = i * Ts / 50 (0 at index 0, never decreasing) and
\* voltage[i] = (S[i] - O) * Vs / 50 with a signed difference: zero exactly
\* when S[i] = O, negative below, positive above; nothing but the samples, the
\* two scales and the offset enters.  Ts = 1 s, Vs = 1 V, O = 512,
\* S = [512, 1024] gives [(0, 0), (0.02, 10.24)].
C7_Points ==
    (ret # <<>> /\ call.fn = "generate_points") =>
        LET S == call.values
            Ts == call.time_scale
            Vs == call.voltage_scale
            O == call.offset
            P(i) == PointAt(ret[1], i)
        IN  /\ ret[1].count = S.count
            /\ \A i \in 0..S.count - 1 :
                  /\ P(i).time = Dec(i * Ts.value.m * 2, Ts.value.e + Ts.scale - 2)
                  /\ P(i).voltage =
                       Dec((VecAt(S, i) - O) * Vs.value.m * 2, Vs.value.e + Vs.scale - 2)
                  /\ Sign(P(i).voltage) =
                       (IF VecAt(S, i) > O THEN 1 ELSE IF VecAt(S, i) < O THEN -1 ELSE 0)
                  /\ i = 0 => P(i).time.m = 0
                  /\ i > 0 => /\ P(i).time.e = P(i - 1).time.e
                              /\ P(i).time.m >= P(i - 1).time.m
            /\ (/\ S = VecOf(<<512, 1024>>) /\ O = 512
                /\ Ts = TIME_SCALES[6] /\ Vs = PROBE_SCALES[3]) =>
                  /\ P(0) = [time |-> Dec(0, -2), voltage |-> Dec(0, -2)]
                  /\ P(1) = [time |-> Dec(2, -2), voltage |-> Dec(1024, -2)]

\* a series with a sample below the offset: a negative voltage
C7_Witness ==
    /\ ret # <<>>
    /\ call.fn = "generate_points"
    /\ call.values.count = 2
    /\ VecAt(call.values, 0) = 512 /\ call.offset = 65535
    /\ PointAt(ret[1], 0).voltage.m < 0
    /\ PointAt(ret[1], 1).time.m > 0

-----------------------------------------------------------------------------
(* C8 *)

\* bitwise or of two naturals
RECURSIVE BitOr(_, _)
BitOr(a, b) ==
    IF a = 0 THEN b
    ELSE IF b = 0 THEN a
    ELSE (IF a % 2 = 1 \/ b % 2 = 1 THEN 1 ELSE 0) + 2 * BitOr(a \div 2, b \div 2)

\* C8: for 16-bit high and low the frequency is high * 65536 + low: its upper
\* 16 bits are high and its lower 16 bits are low, which is (high << 16) | low;
\* the sum never overflows 32 bits; no other pair gives the same frequency;
\* high = 1, low = 2 gives 65538.
C8_Frequency ==
    (ret # <<>> /\ call.fn = "parse_frequency") =>
        /\ ~ret[1].overflow
        /\ ret[1].hi = call.high /\ ret[1].lo = call.low
        /\ ret[1].hi = BitOr(call.high, 0) /\ ret[1].lo = BitOr(0, call.low)
        /\ ret[1].hi < 32768 =>
              ret[1].hi * 65536 + ret[1].lo = call.high * 65536 + call.low
        /\ \A c \in Calls :
              (c.fn = "parse_frequency" /\ parse_frequency(c.high, c.low) = ret[1])
                  => c = call
        /\ (call.high = 1 /\ call.low = 2) => ret[1].hi * 65536 + ret[1].lo = 65538

\* the largest pair: 0xFFFFFFFF, no overflow
C8_Witness ==
    /\ ret # <<>>
    /\ call.fn = "parse_frequency"
    /\ call.high = 65535 /\ call.low = 65535
    /\ ret[1] = [hi |-> 65535, lo |-> 65535, overflow |-> FALSE]

=============================================================================
